---- MODULE Spec2Model ----
(***************************************************************************)
(* A model of src/utils.py (class RepositoryUtils): repository            *)
(* acquisition, file-tree extraction, README summarization and the two    *)
(* source-file walks.                                                     *)
(*                                                                        *)
(* Representation of Python values:                                       *)
(*   - a str on which the code does string operations is a sequence of    *)
(*     one-character strings (<<"a", ".", "p", "y">> is "a.py");          *)
(*   - a text the code only passes on (stderr, str(e)) is a TLA+ string;  *)
(*   - None is the one-element sequence <<"None">>, which no str equals;   *)
(*     a dict is a record; a list is a sequence.                          *)
(***************************************************************************)
EXTENDS Integers, Sequences, FiniteSets, TLC

VARIABLES
    \* clone_repository
    github_url, clone_pc, temp_dir, disk_temp_dirs, git_calls, git_outcome,
    clone_result,
    \* the file system under repo_path, shared by the tree and the walks
    fs,
    \* generate_file_tree
    tree_pc, tree_root, tree_result,
    \* summarize_readme
    readme_fs, readme_pc, readme_idx, readme_opened, summary_lines, char_count,
    readme_result,
    \* the line scan of parse_jac_files
    jac_source, jac_pc, jac_result,
    \* the AST scan of parse_python_files
    py_ast, py_pc, py_result,
    \* the os.walk loops of parse_python_files and parse_jac_files
    walk_pc, walk_dialect, walk_stack, walk_root, walk_files, walk_listed,
    modules,
    \* the encoding of sys.stdout, which the print calls write to
    stdout_encoding

clone_vars == <<github_url, clone_pc, temp_dir, disk_temp_dirs, git_calls,
                git_outcome, clone_result>>
tree_vars == <<tree_pc, tree_root, tree_result>>
readme_vars == <<readme_fs, readme_pc, readme_idx, readme_opened, summary_lines,
                 char_count, readme_result>>
jac_vars == <<jac_source, jac_pc, jac_result>>
py_vars == <<py_ast, py_pc, py_result>>
walk_vars == <<walk_pc, walk_dialect, walk_stack, walk_root, walk_files,
               walk_listed, modules>>
vars == <<clone_vars, fs, tree_vars, readme_vars, jac_vars, py_vars, walk_vars,
          stdout_encoding>>

None == <<"None">>

\* the value of a result variable before its function has returned
Pending == [pending |-> TRUE]

(***************************************************************************)
(* The state of a function no call of which is in progress                 *)
(***************************************************************************)

IdleClone ==
    /\ github_url = <<>>
    /\ clone_pc = "idle"
    /\ temp_dir = None
    /\ disk_temp_dirs = {}
    /\ git_calls = 0
    /\ git_outcome = [kind |-> "none"]
    /\ clone_result = Pending

IdleFs ==
    /\ fs = <<>>
    /\ tree_pc = "idle" /\ tree_root = <<>> /\ tree_result = Pending

IdleReadme ==
    /\ readme_fs = <<>> /\ readme_pc = "idle" /\ readme_idx = 0
    /\ readme_opened = <<>> /\ summary_lines = <<>> /\ char_count = 0
    /\ readme_result = Pending

\* the standard output of the functions that never print
IdleStdout == stdout_encoding = "utf-8"

IdleJac == jac_source = <<>> /\ jac_pc = "idle" /\ jac_result = Pending

IdlePy == py_ast = <<>> /\ py_pc = "idle" /\ py_result = Pending

IdleWalk ==
    /\ walk_pc = "idle" /\ walk_dialect = "none" /\ walk_stack = <<>>
    /\ walk_root = <<>> /\ walk_files = <<>> /\ walk_listed = <<>>
    /\ modules = <<>>

(***************************************************************************)
(* Python str operations                                                   *)
(***************************************************************************)

\* s.startswith(p)
StartsWith(s, p) == Len(s) >= Len(p) /\ SubSeq(s, 1, Len(p)) = p

\* s.endswith(p)
EndsWith(s, p) == Len(s) >= Len(p) /\ SubSeq(s, Len(s) - Len(p) + 1, Len(s)) = p

\* c in s, for a single character c
HasChar(s, c) == \E i \in 1..Len(s) : s[i] = c

\* s.rfind(c) as a 1-based index, 0 when c does not occur
RFind(s, c) ==
    IF HasChar(s, c) THEN CHOOSE i \in 1..Len(s) :
                              s[i] = c /\ \A j \in (i+1)..Len(s) : s[j] # c
    ELSE 0

\* s.split(c)[-1]: what follows the last c, the whole of s when there is none
LastSegment(s, c) == SubSeq(s, RFind(s, c) + 1, Len(s))

\* s.replace(old, new) for a non-empty old: left to right, non-overlapping
RECURSIVE Replace(_, _, _)
Replace(s, old, new) ==
    IF Len(s) < Len(old) THEN s
    ELSE IF SubSeq(s, 1, Len(old)) = old
         THEN new \o Replace(SubSeq(s, Len(old) + 1, Len(s)), old, new)
         ELSE <<Head(s)>> \o Replace(Tail(s), old, new)

\* s.split(c): the pieces between the occurrences of c (always at least one)
RECURSIVE SplitOn(_, _)
SplitOn(s, c) ==
    IF ~HasChar(s, c) THEN <<s>>
    ELSE LET i == CHOOSE k \in 1..Len(s) :
                      s[k] = c /\ \A j \in 1..(k-1) : s[j] # c
         IN <<SubSeq(s, 1, i - 1)>> \o SplitOn(SubSeq(s, i + 1, Len(s)), c)

\* the characters str.strip() and str.split() treat as whitespace
\* the characters str.strip() and str.split() take for whitespace: the ASCII
\* ones (tab, LF, VT, FF, CR, FS, GS, RS, US, space), NEL, NBSP and U+1680,
\* and the spaces from U+2000 on, which a TLA+ string cannot hold and which
\* are written by code point
VT == ""
FS == ""
NBSP == " "
Whitespace ==
    { " ", "\t", "\n", "\r", "\f", VT, FS, "", "", "", "", NBSP, " ",
      "U+2000", "U+2001", "U+2002", "U+2003", "U+2004", "U+2005",
      "U+2006", "U+2007", "U+2008", "U+2009", "U+200A", "U+2028",
      "U+2029", "U+202F", "U+205F", "U+3000" }

RECURSIVE LStrip(_)
LStrip(s) == IF s # <<>> /\ Head(s) \in Whitespace THEN LStrip(Tail(s)) ELSE s

RECURSIVE RStrip(_)
RStrip(s) ==
    IF s # <<>> /\ s[Len(s)] \in Whitespace THEN RStrip(SubSeq(s, 1, Len(s) - 1))
    ELSE s

\* s.strip()
Strip(s) == RStrip(LStrip(s))

\* s.split(): the maximal runs of non-whitespace characters
RECURSIVE SplitWs(_)
SplitWs(s) ==
    LET t == LStrip(s) IN
    IF t = <<>> THEN <<>>
    ELSE LET n == IF \E k \in 1..Len(t) : t[k] \in Whitespace
                  THEN (CHOOSE k \in 1..Len(t) :
                            t[k] \in Whitespace
                            /\ \A j \in 1..(k-1) : t[j] \notin Whitespace) - 1
                  ELSE Len(t)
         IN <<SubSeq(t, 1, n)>> \o SplitWs(SubSeq(t, n + 1, Len(t)))

\* "\n".join(lines), and the general sep.join
RECURSIVE JoinWith(_, _)
JoinWith(lines, sep) ==
    IF lines = <<>> THEN <<>>
    ELSE IF Len(lines) = 1 THEN lines[1]
    ELSE lines[1] \o sep \o JoinWith(Tail(lines), sep)

\* os.path.join(a, b) on POSIX
PathJoin(a, b) ==
    IF StartsWith(b, <<"/">>) THEN b
    ELSE IF a = <<>> \/ EndsWith(a, <<"/">>) THEN a \o b
    ELSE a \o <<"/">> \o b

\* os.path.basename(p) on POSIX
Basename(p) == LastSegment(p, "/")

(***************************************************************************)
(* clone_repository                                                        *)
(***************************************************************************)

DotGit == <<".", "g", "i", "t">>

\* github_url.split('/')[-1].replace('.git', '')
RepoName(url) == Replace(LastSegment(url, "/"), DotGit, <<>>)

\* the directories tempfile.mkdtemp can return
TempDirs == { <<"/", "t", "1">>, <<"/", "t", "2">> }

\* what mkdtemp can raise, and what subprocess.run can raise
MkdtempFaults == { [type |-> "PermissionError", msg |-> "Permission denied"] }
RunFaults == { [type |-> "FileNotFoundError", msg |-> "No such file: git"],
               [type |-> "TimeoutExpired", msg |-> "timed out after 60 seconds"] }

\* the CompletedProcess values of the git client
GitStderr == { "", "fatal: repository not found" }
Completed == [returncode : {0, 1, 128}, stdout : {"", "out"}, stderr : GitStderr]

\* the classes `except Exception` catches
ExceptionClasses == { "PermissionError", "FileNotFoundError", "TimeoutExpired",
                      "OSError", "UnicodeDecodeError", "UnicodeEncodeError",
                      "SyntaxError" }

\* the encodings of sys.stdout tried
StdoutEncodings == { "utf-8", "ascii" }

\* print() of the messages of lines 20, 198 and 266, each of which starts
\* with a character outside ASCII: whether sys.stdout cannot encode it
PrintRaises(encoding) == encoding # "utf-8"

\* what the print of line 20 raises then, the wrench U+1F527 being the first
\* character of its message
PrintFault ==
    [type |-> "UnicodeEncodeError",
     msg |-> "'ascii' codec can't encode character '\\U0001f527' in position 0: ordinal not in range(128)"]

\* str(e)
Str(e) == e.msg

CloneSuccess(dir, url) ==
    [success |-> TRUE,
     cloned_path |-> PathJoin(dir, RepoName(url)),
     temp_dir |-> dir,
     repo_name |-> RepoName(url)]

CloneExitFailure_stdout(completed) == [success |-> FALSE, error |-> completed.stdout]

\* the return of lines 38-41
CloneExitFailure(completed) == [success |-> FALSE, error |-> completed.stderr]

\* the return of lines 43-47
CloneFault(e) == [success |-> FALSE, error |-> Str(e)]

\* the URLs tried: up to MaxUrlChunks pieces, each one of UrlChunks
MaxUrlChunks == 4
UrlChunks == { <<"/">>, DotGit, <<"a">>, <<".", "g">>, <<"i", "t">>, <<"h", "u", "b">> }

RECURSIVE Flatten(_)
Flatten(ss) == IF ss = <<>> THEN <<>> ELSE Head(ss) \o Flatten(Tail(ss))

Urls == { Flatten(cs) : cs \in UNION { [1..n -> UrlChunks] : n \in 0..MaxUrlChunks } }

InitClone ==
    /\ github_url \in Urls
    /\ stdout_encoding \in StdoutEncodings
    /\ clone_pc = "start"
    /\ temp_dir = None
    /\ disk_temp_dirs = {}
    /\ git_calls = 0
    /\ git_outcome = [kind |-> "none"]
    /\ clone_result = Pending

\* line 16: tempfile.mkdtemp creates a fresh directory, or raises
Mkdtemp ==
    /\ clone_pc = "start"
    /\ \/ \E d \in TempDirs \ disk_temp_dirs :
            /\ temp_dir' = d
            /\ disk_temp_dirs' = disk_temp_dirs \cup {d}
            /\ clone_pc' = "announce"
            /\ UNCHANGED clone_result
       \/ \E e \in MkdtempFaults :
            /\ clone_result' = IF e.type \in ExceptionClasses THEN CloneFault(e) ELSE Pending
            /\ clone_pc' = IF e.type \in ExceptionClasses THEN "returned" ELSE "raised"
            /\ UNCHANGED <<temp_dir, disk_temp_dirs>>
    /\ UNCHANGED <<github_url, git_calls, git_outcome>>

\* lines 17-20 and 43-47: repo_name and repo_path are computed and the
\* message is printed, which raises when sys.stdout cannot encode it
PrintCloning ==
    /\ clone_pc = "announce"
    /\ IF PrintRaises(stdout_encoding)
       THEN /\ clone_result' = IF PrintFault.type \in ExceptionClasses
                                THEN CloneFault(PrintFault) ELSE Pending
            /\ clone_pc' = IF PrintFault.type \in ExceptionClasses
                           THEN "returned" ELSE "raised"
       ELSE /\ clone_pc' = "cloning"
            /\ UNCHANGED clone_result
    /\ UNCHANGED <<github_url, temp_dir, disk_temp_dirs, git_calls, git_outcome>>

\* lines 23-41: one subprocess.run of git clone, which completes
RunGitCompletes ==
    /\ clone_pc = "cloning"
    /\ \E completed \in Completed :
         /\ git_outcome' = [kind |-> "completed", proc |-> completed]
         /\ clone_result' = IF completed.returncode = 0
                            THEN CloneSuccess(temp_dir, github_url)
                            ELSE CloneExitFailure(completed)
    /\ git_calls' = git_calls + 1
    /\ clone_pc' = "returned"
    /\ UNCHANGED <<github_url, temp_dir, disk_temp_dirs>>

\* lines 23-28 and 43-47: subprocess.run raises (no binary, the timeout)
RunGitRaises ==
    /\ clone_pc = "cloning"
    /\ \E e \in RunFaults :
         /\ git_outcome' = [kind |-> "raised", exc |-> e]
         /\ clone_result' = IF e.type \in ExceptionClasses THEN CloneFault(e) ELSE Pending
         /\ clone_pc' = IF e.type \in ExceptionClasses THEN "returned" ELSE "raised"
    /\ git_calls' = git_calls + 1
    /\ UNCHANGED <<github_url, temp_dir, disk_temp_dirs>>

NextClone ==
    \/ Mkdtemp /\ UNCHANGED <<fs, tree_vars, readme_vars, jac_vars, py_vars, walk_vars,
                           stdout_encoding>>
    \/ PrintCloning /\ UNCHANGED <<fs, tree_vars, readme_vars, jac_vars, py_vars, walk_vars,
                           stdout_encoding>>
    \/ RunGitCompletes /\ UNCHANGED <<fs, tree_vars, readme_vars, jac_vars, py_vars, walk_vars,
                           stdout_encoding>>
    \/ RunGitRaises /\ UNCHANGED <<fs, tree_vars, readme_vars, jac_vars, py_vars, walk_vars,
                           stdout_encoding>>

CloneInit ==
    InitClone /\ IdleFs /\ IdleReadme /\ IdleJac /\ IdlePy /\ IdleWalk

SpecClone == CloneInit /\ [][NextClone]_vars

\* the segment with only a trailing ".git" removed
StripGitSuffix(seg) ==
    IF EndsWith(seg, DotGit) THEN SubSeq(seg, 1, Len(seg) - Len(DotGit)) ELSE seg

\* C7: when the client succeeds, repo_name is the URL's final '/'-separated
\* segment with only a trailing ".git" removed, and cloned_path is temp_dir
\* joined with repo_name.
C7_RepoNameStripsOnlyTrailingGit ==
    (clone_pc = "returned" /\ clone_result.success) =>
        /\ clone_result.repo_name = StripGitSuffix(LastSegment(github_url, "/"))
        /\ clone_result.cloned_path = PathJoin(clone_result.temp_dir, clone_result.repo_name)

\* C8: clone_repository never raises and runs the client at most once; it
\* succeeds exactly when the client exits with 0; a non-zero exit gives a
\* failure carrying the client's stderr, any other fault a failure carrying
\* str(e); the temporary directory it created stays on disk.
C8_CloneAlwaysReturnsResult ==
    /\ clone_pc # "raised"
    /\ git_calls <= 1
    /\ temp_dir # None => temp_dir \in disk_temp_dirs
    /\ clone_pc = "returned" =>
         /\ clone_result.success \in BOOLEAN
         /\ clone_result.success <=>
                (git_outcome.kind = "completed" /\ git_outcome.proc.returncode = 0)
         /\ (git_outcome.kind = "completed" /\ git_outcome.proc.returncode # 0) =>
                clone_result = [success |-> FALSE, error |-> git_outcome.proc.stderr]
         /\ git_outcome.kind = "raised" =>
                /\ git_calls = 1
                /\ clone_result = [success |-> FALSE, error |-> git_outcome.exc.msg]
         /\ git_outcome.kind = "none" =>
                /\ git_calls = 0
                /\ clone_result.success = FALSE
                /\ IF temp_dir = None
                   THEN clone_result.error \in { Str(e) : e \in MkdtempFaults }
                   ELSE clone_result.error = Str(PrintFault)

\* a non-zero exit with text on both stdout and stderr has been returned,
\* with the temporary directory created
C8_Witness ==
    /\ clone_pc = "returned"
    /\ git_outcome.kind = "completed"
    /\ git_outcome.proc.returncode = 128
    /\ git_outcome.proc.stderr = "fatal: repository not found"
    /\ git_outcome.proc.stdout = "out"
    /\ temp_dir \in disk_temp_dirs
    /\ clone_result.success = FALSE

(***************************************************************************)
(* summarize_readme                                                        *)
(*                                                                         *)
(* A text is the sequence of its lines (what text.split('\n') returns, so  *)
(* never empty: "" is <<EmptyLine>>); a line is a character ch repeated    *)
(* len times, or one of the two fixed texts of the code.                   *)
(***************************************************************************)

Line(c, n) == [ch |-> c, len |-> n]
EmptyLine == [ch |-> "", len |-> 0]

\* the second line of "\n\n... (truncated)" is empty, its third is this one
MarkerLine == [ch |-> "... (truncated)", len |-> 15]
NoReadmeLine == [ch |-> "No README file found in repository", len |-> 34]

\* len(text): the lines and the "\n" between them
RECURSIVE SumLen(_)
SumLen(lines) == IF lines = <<>> THEN 0 ELSE Head(lines).len + SumLen(Tail(lines))

TextLen(text) == SumLen(text) + Len(text) - 1

\* "\n".join(lines) as a text
JoinLines(lines) == IF lines = <<>> THEN <<EmptyLine>> ELSE lines

\* text + "\n\n... (truncated)"
AppendMarker(text) == text \o <<EmptyLine, MarkerLine>>

ReadmeMaxLines == 20
ReadmeBudget == 1000

Min(a, b) == IF a < b THEN a ELSE b

\* the loop of lines 106-111 with `<=` for `<`
RECURSIVE SummaryLoop_le(_, _, _)
SummaryLoop_le(rest, kept, count) ==
    IF rest = <<>> THEN [summary_lines |-> kept, char_count |-> count]
    ELSE IF count + Head(rest).len <= ReadmeBudget
         THEN SummaryLoop_le(Tail(rest), Append(kept, Head(rest)), count + Head(rest).len)
         ELSE [summary_lines |-> kept, char_count |-> count]

\* the loop of lines 106-111 over what is left of lines[:20]
RECURSIVE SummaryLoop(_, _, _)
SummaryLoop(rest, kept, count) ==
    IF rest = <<>> THEN [summary_lines |-> kept, char_count |-> count]
    ELSE IF count + Head(rest).len < ReadmeBudget
         THEN SummaryLoop(Tail(rest), Append(kept, Head(rest)), count + Head(rest).len)
         ELSE [summary_lines |-> kept, char_count |-> count]

\* lines 102-115: the locals summary_lines and char_count, and the summary
Summarize(content) ==
    LET lines == content
        loop == SummaryLoop(SubSeq(lines, 1, Min(ReadmeMaxLines, Len(lines))), <<>>, 0)
        joined == JoinLines(loop.summary_lines)
    IN [summary_lines |-> loop.summary_lines,
        char_count |-> loop.char_count,
        summary |-> IF TextLen(content) > loop.char_count
                    THEN AppendMarker(joined) ELSE joined]

\* line 92
readme_files ==
    << <<"R", "E", "A", "D", "M", "E", ".", "m", "d">>,
       <<"R", "E", "A", "D", "M", "E", ".", "r", "s", "t">>,
       <<"R", "E", "A", "D", "M", "E", ".", "t", "x", "t">>,
       <<"R", "E", "A", "D", "M", "E">> >>

RepoPath == <<"/", "r">>

\* line 95
ReadmePath(i) == PathJoin(RepoPath, readme_files[i])

\* what open() and f.read() can raise
ReadFaults == { [type |-> "PermissionError", msg |-> "Permission denied"],
                [type |-> "UnicodeDecodeError", msg |-> "invalid start byte"] }

Absent == [state |-> "absent"]
Unreadable(e) == [state |-> "unreadable", exc |-> e]
TextFile(content) == [state |-> "text", content |-> content]

\* the README contents tried: up to MaxPrefix lines of PrefixLines, then up to
\* MaxTail copies of one line of TailLines
MaxPrefix == 2
MaxTail == 25
PrefixLines == { EmptyLine, Line("a", 10), Line("b", 10), Line("a", 400),
                 Line("a", 599), Line("a", 999), Line("a", 1000) }
TailLines == { EmptyLine, Line("a", 10), Line("a", 50) }

Contents ==
    { JoinLines(pre \o [i \in 1..t |-> tl]) :
        pre \in UNION { [1..n -> PrefixLines] : n \in 0..MaxPrefix },
        t \in 0..MaxTail, tl \in TailLines }

\* every combination of absent, unreadable and readable candidates, each
\* readable one with a content of its own; and README.md alone with each of
\* Contents
ReadmeLayouts ==
    { [i \in 1..4 |-> IF st[i] = "text" THEN TextFile(<<Line("c", i)>>)
                      ELSE IF st[i] = "absent" THEN Absent
                      ELSE Unreadable(CHOOSE e \in ReadFaults : e.type = st[i])] :
        st \in [1..4 -> {"absent", "text", "PermissionError", "UnicodeDecodeError"}] }
    \cup { [i \in 1..4 |-> IF i = 1 THEN TextFile(c) ELSE Absent] : c \in Contents }

InitReadme ==
    /\ readme_fs \in ReadmeLayouts
    /\ readme_pc = "probe"
    /\ readme_idx = 1
    /\ readme_opened = <<>>
    /\ summary_lines = <<>>
    /\ char_count = 0
    /\ readme_result = Pending

\* lines 94-96: the candidate does not exist, the loop goes on
SkipCandidate ==
    /\ readme_pc = "probe"
    /\ readme_idx <= Len(readme_files)
    /\ readme_fs[readme_idx].state = "absent"
    /\ readme_idx' = readme_idx + 1
    /\ UNCHANGED <<readme_fs, readme_pc, readme_opened, summary_lines, char_count,
                   readme_result>>

\* lines 96-123: the candidate exists and is read
ReadCandidate ==
    /\ readme_pc = "probe"
    /\ readme_idx <= Len(readme_files)
    /\ readme_fs[readme_idx].state = "text"
    /\ LET content == readme_fs[readme_idx].content
           sum == Summarize(content)
       IN /\ summary_lines' = sum.summary_lines
          /\ char_count' = sum.char_count
          /\ readme_result' = [success |-> TRUE,
                               readme_path |-> ReadmePath(readme_idx),
                               content |-> content,
                               summary |-> sum.summary,
                               full_content |-> content]
    /\ readme_opened' = Append(readme_opened, readme_idx)
    /\ readme_pc' = "returned"
    /\ UNCHANGED <<readme_fs, readme_idx>>

\* the candidate exists and reading it raises: the loop goes on to the next
ReadFails_fallback ==
    /\ readme_pc = "probe"
    /\ readme_idx <= Len(readme_files)
    /\ readme_fs[readme_idx].state = "unreadable"
    /\ readme_opened' = Append(readme_opened, readme_idx)
    /\ readme_idx' = readme_idx + 1
    /\ UNCHANGED <<readme_fs, readme_pc, summary_lines, char_count, readme_result>>

\* lines 96-99 and 124-128: the candidate exists and reading it raises
ReadFails ==
    /\ readme_pc = "probe"
    /\ readme_idx <= Len(readme_files)
    /\ readme_fs[readme_idx].state = "unreadable"
    /\ readme_opened' = Append(readme_opened, readme_idx)
    /\ readme_result' =
         IF readme_fs[readme_idx].exc.type \in ExceptionClasses
         THEN [success |-> FALSE, error |-> Str(readme_fs[readme_idx].exc)]
         ELSE Pending
    /\ readme_pc' =
         IF readme_fs[readme_idx].exc.type \in ExceptionClasses THEN "returned" ELSE "raised"
    /\ UNCHANGED <<readme_fs, readme_idx, summary_lines, char_count>>

\* lines 130-137: no candidate exists
NoReadme ==
    /\ readme_pc = "probe"
    /\ readme_idx > Len(readme_files)
    /\ readme_result' = [success |-> TRUE,
                         readme_path |-> None,
                         content |-> <<EmptyLine>>,
                         summary |-> <<NoReadmeLine>>,
                         full_content |-> <<EmptyLine>>]
    /\ readme_pc' = "returned"
    /\ UNCHANGED <<readme_fs, readme_idx, readme_opened, summary_lines, char_count>>

NextReadme ==
    \/ SkipCandidate /\ UNCHANGED <<clone_vars, fs, tree_vars, jac_vars, py_vars, walk_vars, stdout_encoding>>
    \/ ReadCandidate /\ UNCHANGED <<clone_vars, fs, tree_vars, jac_vars, py_vars, walk_vars, stdout_encoding>>
    \/ ReadFails /\ UNCHANGED <<clone_vars, fs, tree_vars, jac_vars, py_vars, walk_vars, stdout_encoding>>
    \/ NoReadme /\ UNCHANGED <<clone_vars, fs, tree_vars, jac_vars, py_vars, walk_vars, stdout_encoding>>

ReadmeInit ==
    InitReadme /\ IdleClone /\ IdleFs /\ IdleJac /\ IdlePy /\ IdleWalk /\ IdleStdout

SpecReadme == ReadmeInit /\ [][NextReadme]_vars

\* a README has been read and summarized
ReadmeSummarized == readme_pc = "returned" /\ readme_result.success /\ readme_opened # <<>>

\* whether the text ends with "\n\n... (truncated)"
HasMarker(text) ==
    Len(text) >= 3 /\ SubSeq(text, Len(text) - 1, Len(text)) = <<EmptyLine, MarkerLine>>

\* the text before the marker
SummaryBody(text) == IF HasMarker(text) THEN SubSeq(text, 1, Len(text) - 2) ELSE text

\* C3: the marker is appended when the accumulated summary is shorter than
\* the content, and is not appended when the accumulated summary is the
\* whole content.
C3_MarkerIffSummaryShorter ==
    ReadmeSummarized =>
        LET body == SummaryBody(readme_result.summary) IN
        /\ TextLen(body) < TextLen(readme_result.content) => HasMarker(readme_result.summary)
        /\ body = readme_result.content => ~HasMarker(readme_result.summary)

\* C4: the kept lines are a prefix of the content's lines, at most 20 of
\* them, of summed length under 1000, and the prefix is maximal: it ends
\* after 20 lines, at the end of the content, or before the first line that
\* would break the budget; the summary is these lines joined.
C4_KeptLinesMaximalPrefix ==
    ReadmeSummarized =>
        LET lines == readme_result.content
            k == Len(summary_lines)
        IN /\ k <= ReadmeMaxLines
           /\ k <= Len(lines)
           /\ summary_lines = SubSeq(lines, 1, k)
           /\ SumLen(summary_lines) < ReadmeBudget
           /\ \/ k = ReadmeMaxLines
              \/ k = Len(lines)
              \/ SumLen(summary_lines) + lines[k + 1].len >= ReadmeBudget
           /\ SummaryBody(readme_result.summary) = JoinLines(summary_lines)

\* the budget stopped the accumulation before a line that would have fitted
C4_Witness ==
    /\ ReadmeSummarized
    /\ Len(summary_lines) = 1
    /\ Len(readme_result.content) = 3
    /\ readme_result.content[2].len = 599
    /\ readme_result.content[3].len = 0

\* the accumulation stopped after 20 of 25 lines
C4_WitnessTwentyLines ==
    /\ ReadmeSummarized
    /\ Len(summary_lines) = ReadmeMaxLines
    /\ Len(readme_result.content) = 25
    /\ char_count = 200

\* the candidates before i do not exist and candidate i does
FirstExisting(i) ==
    /\ readme_fs[i].state # "absent"
    /\ \A j \in 1..(i - 1) : readme_fs[j].state = "absent"

\* C5: only the highest-priority existing candidate is opened; a successful
\* read reports it as readme_path, a failed read gives a failure carrying
\* the diagnostic, and no lower-priority candidate is read or reported.
C5_OnlyFirstCandidateRead ==
    /\ readme_pc # "raised"
    /\ \A i \in 1..Len(readme_opened) : FirstExisting(readme_opened[i])
    /\ Len(readme_opened) <= 1
    /\ readme_pc = "returned" =>
         \A i \in 1..4 :
            FirstExisting(i) =>
               /\ readme_opened = <<i>>
               /\ readme_fs[i].state = "text" =>
                     /\ readme_result.success
                     /\ readme_result.readme_path = PathJoin(RepoPath, readme_files[i])
                     /\ readme_result.content = readme_fs[i].content
               /\ readme_fs[i].state = "unreadable" =>
                     readme_result = [success |-> FALSE, error |-> readme_fs[i].exc.msg]

\* README.md is absent, README.rst cannot be read, README.txt is readable:
\* the call has returned the failure
C5_Witness ==
    /\ readme_pc = "returned"
    /\ readme_fs[1].state = "absent"
    /\ readme_fs[2].state = "unreadable"
    /\ readme_fs[3].state = "text"
    /\ readme_result.success = FALSE

(***************************************************************************)
(* parse_jac_files: the line scan of one source text                       *)
(***************************************************************************)

KwNode == <<"n", "o", "d", "e">>
KwWalker == <<"w", "a", "l", "k", "e", "r">>
KwEdge == <<"e", "d", "g", "e">>

\* lines 241, 248, 255: line.startswith(kw + ' ') and '{' in line
JacMatches(line, kw) == StartsWith(line, kw \o <<" ">>) /\ HasChar(line, "{")

\* lines 242-247 (249-254, 256-261): the entry appended
JacEntry(line, i, type) == [name |-> SplitWs(line)[2], line |-> i + 1, type |-> type]

\* lines 239-261: the loop body for lines[i], i counted from 0 as enumerate does
JacStep(info, raw, i) ==
    LET line == Strip(raw) IN
    IF JacMatches(line, KwNode)
    THEN [info EXCEPT !.nodes = Append(@, JacEntry(line, i, "node"))]
    ELSE IF JacMatches(line, KwWalker)
    THEN [info EXCEPT !.walkers = Append(@, JacEntry(line, i, "walker"))]
    ELSE IF JacMatches(line, KwEdge)
    THEN [info EXCEPT !.edges = Append(@, JacEntry(line, i, "edge"))]
    ELSE info

RECURSIVE JacLoop(_, _, _)
JacLoop(info, lines, i) ==
    IF i >= Len(lines) THEN info
    ELSE JacLoop(JacStep(info, lines[i + 1], i), lines, i + 1)

\* lines 228-261: the structural lists of module_info
ParseJacSource(source) ==
    JacLoop([nodes |-> <<>>, walkers |-> <<>>, edges |-> <<>>], SplitOn(source, "\n"), 0)

\* the source lines tried: a keyword, a separator, an identifier, a gap and a
\* brace, each possibly missing, and some lines of other shapes
JacDeclLines ==
    { kw \o sep \o <<"S">> \o gap \o brace :
        kw \in {KwNode, KwWalker, KwEdge}, sep \in {<<" ">>, <<>>},
        gap \in {<<" ">>, <<>>}, brace \in {<<"{">>, <<>>} }

JacOtherLines ==
    { <<>>, <<"{">>, <<" ", " ">> \o KwNode \o <<" ", "S", " ", "{", " ">>,
      KwNode \o <<"\t", "S", " ", "{">>, KwNode \o <<"s", " ", "S", " ", "{">>,
      KwEdge \o <<" ", " ", "S", "{", "}">>,
      <<VT>> \o KwNode \o <<" ", "S", " ", "{", FS>>,
      KwNode \o <<VT, "S", " ", "{">>,
      KwWalker \o <<" ", "S", NBSP, "{">> }

JacLines == JacDeclLines \cup JacOtherLines

MaxJacLines == 2

JacSources ==
    { JoinWith(ls, <<"\n">>) : ls \in UNION { [1..n -> JacLines] : n \in 1..MaxJacLines } }

InitJac == jac_source \in JacSources /\ jac_pc = "start" /\ jac_result = Pending

ScanJacSource ==
    /\ jac_pc = "start"
    /\ jac_result' = ParseJacSource(jac_source)
    /\ jac_pc' = "done"
    /\ UNCHANGED jac_source

NextJac ==
    ScanJacSource /\ UNCHANGED <<clone_vars, fs, tree_vars, readme_vars, py_vars, walk_vars, stdout_encoding>>

JacInit ==
    InitJac /\ IdleClone /\ IdleFs /\ IdleReadme /\ IdlePy /\ IdleWalk /\ IdleStdout

SpecJac == JacInit /\ [][NextJac]_vars

\* the declared identifier of a declaration line: its second token up to "{"
DeclaredIdent(line) ==
    LET tok == SplitWs(line)[2] IN
    IF HasChar(tok, "{")
    THEN SubSeq(tok, 1, (CHOOSE k \in 1..Len(tok) :
                            tok[k] = "{" /\ \A j \in 1..(k-1) : tok[j] # "{") - 1)
    ELSE tok

\* the entries of a list recorded for line number n
EntriesAt(list, n) == { k \in 1..Len(list) : list[k].line = n }

\* C6: a line whose trimmed text starts with the keyword and a space and
\* holds "{" yields exactly one entry of the matching list, with its 1-based
\* line number and the declared identifier as name (also when "{" directly
\* follows the identifier); any other line yields no entry.
C6_JacDeclarationsRecorded ==
    jac_pc = "done" =>
        LET lines == SplitOn(jac_source, "\n") IN
        \A n \in 1..Len(lines) :
            LET t == Strip(lines[n])
                declares(kw) == StartsWith(t, kw \o <<" ">>) /\ HasChar(t, "{")
                recorded(list, kw) ==
                    IF declares(kw)
                    THEN /\ Cardinality(EntriesAt(list, n)) = 1
                         /\ \A k \in EntriesAt(list, n) :
                               DeclaredIdent(t) # <<>> => list[k].name = DeclaredIdent(t)
                    ELSE EntriesAt(list, n) = {}
            IN /\ recorded(jac_result.nodes, KwNode)
               /\ recorded(jac_result.walkers, KwWalker)
               /\ recorded(jac_result.edges, KwEdge)

(***************************************************************************)
(* parse_python_files: the scan of one parsed source                       *)
(*                                                                         *)
(* py_ast is the sequence of nodes ast.walk(tree) yields.                  *)
(***************************************************************************)

ClassDef(name, lineno) == [kind |-> "ClassDef", name |-> name, lineno |-> lineno]
FunctionDef(name, lineno) == [kind |-> "FunctionDef", name |-> name, lineno |-> lineno]
AsyncFunctionDef(name, lineno) ==
    [kind |-> "AsyncFunctionDef", name |-> name, lineno |-> lineno]
Import(names) == [kind |-> "Import", names |-> names]
ImportFrom(module, level) == [kind |-> "ImportFrom", module |-> module, level |-> level]
OtherNode == [kind |-> "Expr"]
Alias(name, asname) == [name |-> name, asname |-> asname]

\* the truth value of a str or None
Truthy(v) == v # None /\ v # <<>>

\* lines 182-186: one entry per alias of an Import node
ImportEntries(names) == [i \in 1..Len(names) |-> [name |-> names[i].name, alias |-> names[i].asname]]

\* lines 169-193 with the test of line 188 left out
PyStep_noguard(info, node) ==
    IF node.kind = "ClassDef"
    THEN [info EXCEPT !.classes =
            Append(@, [name |-> node.name, line |-> node.lineno, type |-> "class"])]
    ELSE IF node.kind = "FunctionDef"
    THEN [info EXCEPT !.functions =
            Append(@, [name |-> node.name, line |-> node.lineno, type |-> "function"])]
    ELSE IF node.kind = "Import"
    THEN [info EXCEPT !.imports = @ \o ImportEntries(node.names)]
    ELSE IF node.kind = "ImportFrom"
    THEN [info EXCEPT !.imports =
            Append(@, [name |-> node.module, alias |-> None, from_import |-> TRUE])]
    ELSE info

\* lines 169-193: the loop body for one node
PyStep(info, node) ==
    IF node.kind = "ClassDef"
    THEN [info EXCEPT !.classes =
            Append(@, [name |-> node.name, line |-> node.lineno, type |-> "class"])]
    ELSE IF node.kind = "FunctionDef"
    THEN [info EXCEPT !.functions =
            Append(@, [name |-> node.name, line |-> node.lineno, type |-> "function"])]
    ELSE IF node.kind = "Import"
    THEN [info EXCEPT !.imports = @ \o ImportEntries(node.names)]
    ELSE IF node.kind = "ImportFrom"
    THEN IF Truthy(node.module)
         THEN [info EXCEPT !.imports =
                 Append(@, [name |-> node.module, alias |-> None, from_import |-> TRUE])]
         ELSE info
    ELSE info

RECURSIVE PyLoop(_, _)
PyLoop(info, nodes) ==
    IF nodes = <<>> THEN info ELSE PyLoop(PyStep(info, Head(nodes)), Tail(nodes))

\* lines 158-193: the structural lists of module_info
ParsePythonAst(nodes) ==
    PyLoop([classes |-> <<>>, functions |-> <<>>, imports |-> <<>>], nodes)

\* the nodes tried
AstNodes ==
    { ClassDef(<<"F", "o", "o">>, 3),
      FunctionDef(<<"b", "a", "r">>, 7),
      AsyncFunctionDef(<<"r", "u", "n">>, 9),
      Import(<< Alias(<<"o", "s">>, None) >>),
      Import(<< Alias(<<"s", "y", "s">>, <<"s">>), Alias(<<"r", "e">>, None) >>),
      ImportFrom(<<"x">>, 0),
      ImportFrom(<<"p", "k", "g">>, 1),
      ImportFrom(None, 1),
      OtherNode }

MaxAstNodes == 3

InitPy ==
    /\ py_ast \in UNION { [1..n -> AstNodes] : n \in 0..MaxAstNodes }
    /\ py_pc = "start"
    /\ py_result = Pending

ScanPythonAst ==
    /\ py_pc = "start"
    /\ py_result' = ParsePythonAst(py_ast)
    /\ py_pc' = "done"
    /\ UNCHANGED py_ast

NextPy ==
    ScanPythonAst /\ UNCHANGED <<clone_vars, fs, tree_vars, readme_vars, jac_vars, walk_vars, stdout_encoding>>

PyInit ==
    InitPy /\ IdleClone /\ IdleFs /\ IdleReadme /\ IdleJac /\ IdleWalk /\ IdleStdout

SpecPy == PyInit /\ [][NextPy]_vars

IsImportFrom(node) == node.kind = "ImportFrom"
IsNamedImportFrom(node) == node.kind = "ImportFrom" /\ node.module # None
IsImport(node) == node.kind = "Import"
IsFromEntry(e) == "from_import" \in DOMAIN e
IsPlainEntry(e) == "from_import" \notin DOMAIN e

RECURSIVE AllAliases(_)
AllAliases(nodes) ==
    IF nodes = <<>> THEN <<>> ELSE Head(nodes).names \o AllAliases(Tail(nodes))

\* the plain-import half of C10: one entry per imported name, with its alias
PlainImportsRecorded ==
    LET aliases == AllAliases(SelectSeq(py_ast, IsImport))
        plain == SelectSeq(py_result.imports, IsPlainEntry)
    IN /\ Len(plain) = Len(aliases)
       /\ \A i \in 1..Len(plain) :
             plain[i].name = aliases[i].name /\ plain[i].alias = aliases[i].asname

\* the from-import entries are, in order, the module names of stmts
FromImportsAre(stmts) ==
    LET from == SelectSeq(py_result.imports, IsFromEntry) IN
    /\ Len(from) = Len(stmts)
    /\ \A i \in 1..Len(from) :
          /\ from[i].name = stmts[i].module
          /\ from[i].from_import = TRUE
          /\ from[i].alias = None

\* C10 as stated: one entry marked from_import per from-import statement,
\* the relative ones that name no module included, and one entry per
\* imported name of every plain import.
C10_EveryFromImportRecorded ==
    py_pc = "done" =>
        /\ FromImportsAre(SelectSeq(py_ast, IsImportFrom))
        /\ PlainImportsRecorded

\* C10 amended: one entry marked from_import, carrying the module name, per
\* from-import statement that names a module; a from-import that names none
\* (from . import x) yields no entry; one entry per imported name of every
\* plain import.
C10_NamedFromImportsRecorded ==
    py_pc = "done" =>
        /\ FromImportsAre(SelectSeq(py_ast, IsNamedImportFrom))
        /\ PlainImportsRecorded
        /\ \A i \in 1..Len(py_result.imports) : py_result.imports[i].name # None

\* a source with `from . import x`, a from-import that names a module and
\* a plain import of two names has been scanned
C10_Witness ==
    /\ py_pc = "done"
    /\ \E i, j, k \in 1..Len(py_ast) :
          /\ py_ast[i] = ImportFrom(None, 1)
          /\ py_ast[j] = ImportFrom(<<"p", "k", "g">>, 1)
          /\ py_ast[k].kind = "Import" /\ Len(py_ast[k].names) = 2
    /\ Len(py_result.imports) = 3

(***************************************************************************)
(* The file system                                                         *)
(*                                                                         *)
(* The repository is the directory RepoPath; fs lists what is under it, in *)
(* the order os.listdir and os.scandir report it. An entry has a path (the *)
(* names from RepoPath down) and a kind:                                   *)
(*   "dir"     a directory that can be listed                              *)
(*   "nolist"  a directory whose listing raises PermissionError            *)
(*   "file"    a regular file, with its size                               *)
(*   "broken"  a dangling symbolic link: listed by its parent, not a       *)
(*             directory, and os.path.getsize raises FileNotFoundError     *)
(***************************************************************************)

\* the printable ASCII characters in code order, from " " (32) on; the entry
\* entries "backslash" and "backtick" hold the places of codes 92 and 96
Ascii ==
    <<
       " ", "!", "\"", "#", "$", "%", "&", "'", "(", ")", "*", "+",
       ",", "-", ".", "/", "0", "1", "2", "3", "4", "5", "6", "7",
       "8", "9", ":", ";", "<", "=", ">", "?", "@", "A", "B", "C",
       "D", "E", "F", "G", "H", "I", "J", "K", "L", "M", "N", "O",
       "P", "Q", "R", "S", "T", "U", "V", "W", "X", "Y", "Z", "[",
       "backslash", "]", "^", "_", "backtick", "a", "b", "c", "d", "e", "f", "g",
       "h", "i", "j", "k", "l", "m", "n", "o", "p", "q", "r", "s",
       "t", "u", "v", "w", "x", "y", "z", "{", "|", "}", "~" >>

\* ord(c)
Code(c) == 31 + CHOOSE i \in 1..Len(Ascii) : Ascii[i] = c

\* a < b for two str: the comparison sorted() uses
RECURSIVE StrLess(_, _)
StrLess(a, b) ==
    IF b = <<>> THEN FALSE
    ELSE IF a = <<>> THEN TRUE
    ELSE IF Head(a) = Head(b) THEN StrLess(Tail(a), Tail(b))
    ELSE Code(Head(a)) < Code(Head(b))

RECURSIVE Insert(_, _)
Insert(x, sorted) ==
    IF sorted = <<>> THEN <<x>>
    ELSE IF StrLess(x, Head(sorted)) THEN <<x>> \o sorted
    ELSE <<Head(sorted)>> \o Insert(x, Tail(sorted))

\* sorted(names)
RECURSIVE Sorted(_)
Sorted(names) == IF names = <<>> THEN <<>> ELSE Insert(Head(names), Sorted(Tail(names)))

NonEmpty(s) == s # <<>>

\* the names from RepoPath down that a path string resolves to, or
\* <<None>> when it leads elsewhere
Resolve(path) ==
    LET comps == SelectSeq(SplitOn(path, "/"), NonEmpty) IN
    IF StartsWith(path, <<"/">>) /\ comps # <<>> /\ <<"/">> \o comps[1] = RepoPath
    THEN Tail(comps) ELSE <<None>>

\* the kind of what a path string names, "absent" when it names nothing
KindIn(files, path) ==
    LET rel == Resolve(path)
        kind == IF rel = <<None>> THEN "absent"
                ELSE IF rel = <<>> THEN "dir"
                ELSE IF \E i \in 1..Len(files) : files[i].path = rel
                THEN files[CHOOSE i \in 1..Len(files) : files[i].path = rel].kind
                ELSE "absent"
    IN IF EndsWith(path, <<"/">>) /\ kind \notin {"dir", "nolist"} THEN "absent" ELSE kind

\* os.path.isdir(path)
IsDirIn(files, path) == KindIn(files, path) \in {"dir", "nolist"}

\* os.listdir(path) of a directory: the names, or the exception raised
ListDirIn(files, path) ==
    IF KindIn(files, path) = "nolist"
    THEN [ok |-> FALSE, exc |-> [type |-> "PermissionError", msg |-> "Permission denied"]]
    ELSE LET rel == Resolve(path)
             under(e) == Len(e.path) = Len(rel) + 1 /\ SubSeq(e.path, 1, Len(rel)) = rel
             listed == SelectSeq(files, under)
         IN [ok |-> TRUE, names |-> [i \in 1..Len(listed) |-> listed[i].path[Len(rel) + 1]]]

\* os.path.getsize(path) of what is not a directory
GetSizeIn(files, path) ==
    IF KindIn(files, path) = "file"
    THEN [ok |-> TRUE,
          size |-> files[CHOOSE i \in 1..Len(files) : files[i].path = Resolve(path)].size]
    ELSE [ok |-> FALSE,
          exc |-> [type |-> "FileNotFoundError", msg |-> "No such file or directory"]]

\* the classes `except (PermissionError, OSError)` catches
OSErrorClasses == { "OSError", "PermissionError", "FileNotFoundError" }

(***************************************************************************)
(* generate_file_tree                                                      *)
(***************************************************************************)

N_venv == <<"v", "e", "n", "v">>
N_src == <<"s", "r", "c">>
N_a_txt == <<"a", ".", "t", "x", "t">>

\* line 56
skip_dirs ==
    { DotGit,
      <<"_", "_", "p", "y", "c", "a", "c", "h", "e", "_", "_">>,
      <<"n", "o", "d", "e", "_", "m", "o", "d", "u", "l", "e", "s">>,
      <<".", "v", "s", "c", "o", "d", "e">>,
      <<".", "i", "d", "e", "a">>,
      N_venv }

\* Path(path).suffix
Suffix(path) ==
    LET name == Basename(path)
        i == RFind(name, ".")
    IN IF 1 < i /\ i < Len(name) THEN SubSeq(name, i, Len(name)) ELSE <<>>

\* what build_tree can do: return None, return an item, raise
ReturnNone == [tag |-> "none"]
ReturnItem(item) == [tag |-> "item", item |-> item]
Raise(e) == [tag |-> "raise", exc |-> e]

\* lines 52-81, and the loop of lines 70-76 over the names left
RECURSIVE build_tree(_, _, _)
RECURSIVE build_children(_, _, _, _)
build_tree(files, path, depth) ==
    LET name == Basename(path)
        item == [name |-> name, path |-> path, is_directory |-> IsDirIn(files, path),
                 depth |-> depth, children |-> <<>>]
    IN IF name \in skip_dirs THEN ReturnNone
       ELSE IF IsDirIn(files, path)
       THEN LET ls == ListDirIn(files, path) IN
            IF ls.ok THEN build_children(files, item, Sorted(ls.names), depth)
            ELSE IF ls.exc.type \in OSErrorClasses
                 THEN ReturnItem(item @@ [error |-> Str(ls.exc)])
                 ELSE Raise(ls.exc)
       ELSE LET size == GetSizeIn(files, path) IN
            IF size.ok
            THEN ReturnItem(item @@ [file_type |-> Suffix(path), size |-> size.size])
            ELSE Raise(size.exc)

build_children(files, item, names, depth) ==
    IF names = <<>> THEN ReturnItem(item)
    ELSE LET child == build_tree(files, PathJoin(item.path, Head(names)), depth + 1) IN
         IF child.tag = "raise"
         THEN IF child.exc.type \in OSErrorClasses
              THEN ReturnItem(item @@ [error |-> Str(child.exc)])
              ELSE child
         ELSE IF child.tag = "item"
         THEN build_children(files, [item EXCEPT !.children = Append(@, child.item)],
                             Tail(names), depth)
         ELSE build_children(files, item, Tail(names), depth)

\* line 85
EmptyTree ==
    [name |-> <<"e", "m", "p", "t", "y">>, is_directory |-> TRUE, children |-> <<>>]

\* the names, kinds and sizes of the entries created, and the roots tried
EntryNames == { DotGit, N_venv, N_src, N_a_txt }
FileSizes == { 10 }
MaxTreeEntries == 3

TreeRoots ==
    { RepoPath, RepoPath \o <<"/">>, <<"/", "n", "o", "p", "e">>, <<"/">> \o N_venv,
      PathJoin(RepoPath, N_src), PathJoin(RepoPath, DotGit),
      PathJoin(RepoPath, N_a_txt) }

\* the directories an entry can be created in
ListableDirs(files) ==
    { <<>> } \cup { files[i].path : i \in { k \in 1..Len(files) : files[k].kind = "dir" } }

NameFree(files, parent, name) ==
    \A i \in 1..Len(files) : files[i].path # Append(parent, name)

InitTree ==
    /\ fs = <<>>
    /\ tree_pc = "setup"
    /\ tree_root = <<>>
    /\ tree_result = Pending

\* the repository gains a directory, listable or not
MakeDir ==
    /\ tree_pc = "setup"
    /\ Len(fs) < MaxTreeEntries
    /\ \E parent \in ListableDirs(fs), name \in EntryNames, kind \in {"dir", "nolist"} :
         /\ NameFree(fs, parent, name)
         /\ fs' = Append(fs, [path |-> Append(parent, name), kind |-> kind])
    /\ UNCHANGED tree_vars

\* the repository gains a regular file
MakeFile ==
    /\ tree_pc = "setup"
    /\ Len(fs) < MaxTreeEntries
    /\ \E parent \in ListableDirs(fs), name \in EntryNames, size \in FileSizes :
         /\ NameFree(fs, parent, name)
         /\ fs' = Append(fs, [path |-> Append(parent, name), kind |-> "file", size |-> size])
    /\ UNCHANGED tree_vars

\* the repository gains a dangling symbolic link
MakeDanglingLink ==
    /\ tree_pc = "setup"
    /\ Len(fs) < MaxTreeEntries
    /\ \E parent \in ListableDirs(fs), name \in EntryNames :
         /\ NameFree(fs, parent, name)
         /\ fs' = Append(fs, [path |-> Append(parent, name), kind |-> "broken"])
    /\ UNCHANGED tree_vars

\* lines 83-87: generate_file_tree(root)
GenerateFileTree ==
    /\ tree_pc = "setup"
    /\ \E root \in TreeRoots :
         LET root_tree == build_tree(fs, root, 0) IN
         /\ tree_root' = root
         /\ tree_pc' = IF root_tree.tag = "raise" THEN "raised" ELSE "returned"
         /\ tree_result' = IF root_tree.tag = "raise" THEN Pending
                           ELSE IF root_tree.tag = "none" THEN EmptyTree
                           ELSE root_tree.item
    /\ UNCHANGED fs

NextTree ==
    \/ MakeDir /\ UNCHANGED <<clone_vars, readme_vars, jac_vars, py_vars, walk_vars, stdout_encoding>>
    \/ MakeFile /\ UNCHANGED <<clone_vars, readme_vars, jac_vars, py_vars, walk_vars, stdout_encoding>>
    \/ MakeDanglingLink /\ UNCHANGED <<clone_vars, readme_vars, jac_vars, py_vars, walk_vars, stdout_encoding>>
    \/ GenerateFileTree /\ UNCHANGED <<clone_vars, readme_vars, jac_vars, py_vars, walk_vars, stdout_encoding>>

TreeInit ==
    InitTree /\ IdleClone /\ IdleReadme /\ IdleJac /\ IdlePy /\ IdleWalk /\ IdleStdout

SpecTree == TreeInit /\ [][NextTree]_vars

\* the paths of the nodes below a tree node, one per node
RECURSIVE NodePaths(_)
RECURSIVE NodePathsOf(_)
NodePaths(node) == NodePathsOf(node.children)
NodePathsOf(children) ==
    IF children = <<>> THEN <<>>
    ELSE <<Head(children).path>> \o NodePaths(Head(children)) \o NodePathsOf(Tail(children))

RECURSIVE NodeNames(_)
RECURSIVE NodeNamesOf(_)
NodeNames(node) == {node.name} \cup NodeNamesOf(node.children)
NodeNamesOf(children) ==
    IF children = <<>> THEN {}
    ELSE NodeNames(Head(children)) \cup NodeNamesOf(Tail(children))

\* the path string of an entry
RECURSIVE EntryPath(_, _)
EntryPath(base, rel) ==
    IF rel = <<>> THEN base ELSE EntryPath(PathJoin(base, Head(rel)), Tail(rel))

\* the entries strictly below the root none of whose names from the root
\* down is excluded
KeptEntries(root) ==
    LET top == Resolve(root) IN
    { i \in 1..Len(fs) :
        /\ Len(fs[i].path) > Len(top)
        /\ SubSeq(fs[i].path, 1, Len(top)) = top
        /\ \A k \in (Len(top) + 1)..Len(fs[i].path) : fs[i].path[k] \notin skip_dirs }

\* the path string build_tree gives entry i under the root
PathUnder(root, i) ==
    EntryPath(root, SubSeq(fs[i].path, Len(Resolve(root)) + 1, Len(fs[i].path)))

\* C1: under a root whose own name is not excluded, no node carries an
\* excluded name, every node is an entry with no excluded name on its path
\* from the root, and every such entry that is a directory or a regular file
\* appears exactly once.
C1_TreeHoldsExactlyNonExcluded ==
    (tree_pc \in {"returned", "raised"} /\ Basename(tree_root) \notin skip_dirs
        /\ KindIn(fs, tree_root) = "dir") =>
        /\ tree_pc = "returned"
        /\ NodeNames(tree_result) \cap skip_dirs = {}
        /\ LET paths == NodePaths(tree_result) IN
           /\ \A n \in 1..Len(paths) :
                 \E i \in KeptEntries(tree_root) : paths[n] = PathUnder(tree_root, i)
           /\ \A i \in KeptEntries(tree_root) :
                 fs[i].kind \in {"dir", "nolist", "file"} =>
                    Cardinality({ n \in 1..Len(paths) : paths[n] = PathUnder(tree_root, i) }) = 1

\* C2: when the root's base name is excluded, or the root does not exist,
\* generate_file_tree returns the placeholder and does not raise.
C2_PlaceholderForMissingRoot ==
    (tree_pc \in {"returned", "raised"}
        /\ (Basename(tree_root) \in skip_dirs \/ KindIn(fs, tree_root) = "absent")) =>
        /\ tree_pc = "returned"
        /\ tree_result = EmptyTree

(***************************************************************************)
(* parse_python_files and parse_jac_files: the os.walk loops               *)
(***************************************************************************)

N_pkg == <<"p", "k", "g">>
N_a_py == <<"a", ".", "p", "y">>
N_b_py == <<"b", ".", "p", "y">>
N_x_jac == <<"x", ".", "j", "a", "c">>

DotPy == <<".", "p", "y">>
DotJac == <<".", "j", "a", "c">>

\* lines 146 and 218: the directory names each walk does not descend into
PrunedDirs(dialect) ==
    IF dialect = "py"
    THEN { DotGit,
           <<"_", "_", "p", "y", "c", "a", "c", "h", "e", "_", "_">>,
           <<"n", "o", "d", "e", "_", "m", "o", "d", "u", "l", "e", "s">>,
           N_venv }
    ELSE { DotGit,
           <<"_", "_", "p", "y", "c", "a", "c", "h", "e", "_", "_">>,
           <<"n", "o", "d", "e", "_", "m", "o", "d", "u", "l", "e", "s">> }

\* lines 149 and 221
SourceSuffix(dialect) == IF dialect = "py" THEN DotPy ELSE DotJac

\* ast.parse on the Python sources tried
AstParse(source_code) ==
    IF source_code = "import os"
    THEN [ok |-> TRUE, nodes |-> << Import(<< Alias(<<"o", "s">>, None) >>) >>]
    ELSE IF source_code = "class Foo: pass"
    THEN [ok |-> TRUE, nodes |-> << ClassDef(<<"F", "o", "o">>, 1), OtherNode >>]
    ELSE [ok |-> FALSE, exc |-> [type |-> "SyntaxError", msg |-> "invalid syntax"]]

\* open(file_path).read(): the text, or the exception raised
ReadSource(files, path) ==
    LET e == files[CHOOSE i \in 1..Len(files) : files[i].path = Resolve(path)] IN
    IF e.data.state = "text" THEN [ok |-> TRUE, text |-> e.data.text]
    ELSE [ok |-> FALSE, exc |-> e.data.exc]

\* lines 200-208 and 267-275: the record of a file that failed
DegradedModule(dialect, file_path, file, e) ==
    IF dialect = "py"
    THEN [file_path |-> file_path,
          module_name |-> SubSeq(file, 1, Len(file) - 3),
          type |-> "python_module",
          classes |-> <<>>, functions |-> <<>>, imports |-> <<>>,
          error |-> Str(e)]
    ELSE [file_path |-> file_path,
          module_name |-> SubSeq(file, 1, Len(file) - 4),
          type |-> "jac_module",
          nodes |-> <<>>, walkers |-> <<>>, edges |-> <<>>,
          error |-> Str(e)]

\* lines 158-195: the record of a Python file read and parsed
PythonModule(file_path, file, source_code, nodes) ==
    LET info == ParsePythonAst(nodes) IN
    [file_path |-> file_path,
     module_name |-> SubSeq(file, 1, Len(file) - 3),
     type |-> "python_module",
     classes |-> info.classes, functions |-> info.functions, imports |-> info.imports,
     source_code |-> source_code]

\* lines 228-263: the record of a Jac file read
JacModule(file_path, file, source_code) ==
    LET info == ParseJacSource(source_code) IN
    [file_path |-> file_path,
     module_name |-> SubSeq(file, 1, Len(file) - 4),
     type |-> "jac_module",
     nodes |-> info.nodes, walkers |-> info.walkers, edges |-> info.edges,
     source_code |-> source_code]

\* lines 150-208 and 222-275: the try block for one file, and its handler
ModuleFor(files, dialect, root, file) ==
    LET file_path == PathJoin(root, file)
        read == ReadSource(files, file_path)
    IN IF ~read.ok THEN DegradedModule(dialect, file_path, file, read.exc)
       ELSE IF dialect = "jac" THEN JacModule(file_path, file, read.text)
       ELSE LET tree == AstParse(read.text) IN
            IF tree.ok THEN PythonModule(file_path, file, read.text, tree.nodes)
            ELSE DegradedModule(dialect, file_path, file, tree.exc)

\* what the source files tried hold
PythonData ==
    { [state |-> "text", text |-> "import os"],
      [state |-> "text", text |-> "def f(:"],
      [state |-> "unreadable",
       exc |-> [type |-> "UnicodeDecodeError", msg |-> "invalid start byte"]] }
JacData ==
    { [state |-> "text", text |-> KwNode \o <<" ", "S", " ", "{">>],
      [state |-> "unreadable",
       exc |-> [type |-> "PermissionError", msg |-> "Permission denied"]] }

SourceDirNames == { N_venv, N_pkg }
SourceFileNames == { N_a_py, N_b_py, N_x_jac }
DataFor(name) == IF EndsWith(name, DotPy) THEN PythonData ELSE JacData

MaxWalkEntries == 3

InitWalk ==
    /\ fs = <<>>
    /\ stdout_encoding \in StdoutEncodings
    /\ tree_pc = "idle" /\ tree_root = <<>> /\ tree_result = Pending
    /\ walk_pc = "setup"
    /\ walk_dialect = "none"
    /\ walk_stack = <<>>
    /\ walk_root = <<>>
    /\ walk_files = <<>>
    /\ walk_listed = <<>>
    /\ modules = <<>>

\* the repository gains a directory, listable or not
MakeSourceDir ==
    /\ walk_pc = "setup"
    /\ Len(fs) < MaxWalkEntries
    /\ \E parent \in ListableDirs(fs), name \in SourceDirNames, kind \in {"dir", "nolist"} :
         /\ NameFree(fs, parent, name)
         /\ fs' = Append(fs, [path |-> Append(parent, name), kind |-> kind])
    /\ UNCHANGED <<tree_vars, walk_vars>>

\* the repository gains a source file
WriteSource ==
    /\ walk_pc = "setup"
    /\ Len(fs) < MaxWalkEntries
    /\ \E parent \in ListableDirs(fs), name \in SourceFileNames :
         \E data \in DataFor(name) :
            /\ NameFree(fs, parent, name)
            /\ fs' = Append(fs, [path |-> Append(parent, name), kind |-> "file",
                                 size |-> 10, data |-> data])
    /\ UNCHANGED <<tree_vars, walk_vars>>

\* lines 142-144 and 215-217: parse_python_files or parse_jac_files is called
StartWalk ==
    /\ walk_pc = "setup"
    /\ \E dialect \in {"py", "jac"} : walk_dialect' = dialect
    /\ walk_pc' = "walking"
    /\ walk_stack' = <<RepoPath>>
    /\ modules' = <<>>
    /\ UNCHANGED <<fs, tree_vars, walk_root, walk_files, walk_listed>>

\* os.walk yields the next directory; lines 146 and 218 prune its dirs
VisitDir ==
    /\ walk_pc = "walking"
    /\ walk_files = <<>>
    /\ walk_stack # <<>>
    /\ LET top == Head(walk_stack)
           ls == ListDirIn(fs, top)
           isdir(name) == IsDirIn(fs, PathJoin(top, name))
           nondir(name) == ~IsDirIn(fs, PathJoin(top, name))
           kept(name) == name \notin PrunedDirs(walk_dialect)
           dirs == SelectSeq(SelectSeq(ls.names, isdir), kept)
       IN IF ls.ok
          THEN /\ walk_root' = top
               /\ walk_files' = SelectSeq(ls.names, nondir)
               /\ walk_stack' = [i \in 1..Len(dirs) |-> PathJoin(top, dirs[i])]
                                   \o Tail(walk_stack)
          ELSE /\ walk_stack' = Tail(walk_stack)
               /\ UNCHANGED <<walk_root, walk_files>>
    /\ UNCHANGED <<fs, tree_vars, walk_pc, walk_dialect, walk_listed, modules>>

\* lines 148-149 and 220-221: a file of another suffix
SkipFile ==
    /\ walk_pc = "walking"
    /\ walk_files # <<>>
    /\ ~EndsWith(Head(walk_files), SourceSuffix(walk_dialect))
    /\ walk_files' = Tail(walk_files)
    /\ UNCHANGED <<fs, tree_vars, walk_pc, walk_dialect, walk_stack, walk_root,
                   walk_listed, modules>>

\* lines 149-208 and 221-275: the body for a source file. The handler of a
\* failure prints its warning (lines 198 and 266) before it appends the
\* degraded record; when print raises, the exception leaves the function
ParseFile ==
    /\ walk_pc = "walking"
    /\ walk_files # <<>>
    /\ EndsWith(Head(walk_files), SourceSuffix(walk_dialect))
    /\ LET m == ModuleFor(fs, walk_dialect, walk_root, Head(walk_files)) IN
       IF "error" \in DOMAIN m /\ PrintRaises(stdout_encoding)
       THEN /\ walk_pc' = "raised"
            /\ UNCHANGED <<modules, walk_files>>
       ELSE /\ modules' = Append(modules, m)
            /\ walk_files' = Tail(walk_files)
            /\ UNCHANGED walk_pc
    /\ walk_listed' = Append(walk_listed, PathJoin(walk_root, Head(walk_files)))
    /\ UNCHANGED <<fs, tree_vars, walk_dialect, walk_stack, walk_root>>

\* lines 210 and 277: the walk is over
FinishWalk ==
    /\ walk_pc = "walking"
    /\ walk_files = <<>>
    /\ walk_stack = <<>>
    /\ walk_pc' = "returned"
    /\ UNCHANGED <<fs, tree_vars, walk_dialect, walk_stack, walk_root, walk_files,
                   walk_listed, modules>>

NextWalk ==
    \/ MakeSourceDir /\ UNCHANGED <<clone_vars, readme_vars, jac_vars, py_vars, stdout_encoding>>
    \/ WriteSource /\ UNCHANGED <<clone_vars, readme_vars, jac_vars, py_vars, stdout_encoding>>
    \/ StartWalk /\ UNCHANGED <<clone_vars, readme_vars, jac_vars, py_vars, stdout_encoding>>
    \/ VisitDir /\ UNCHANGED <<clone_vars, readme_vars, jac_vars, py_vars, stdout_encoding>>
    \/ SkipFile /\ UNCHANGED <<clone_vars, readme_vars, jac_vars, py_vars, stdout_encoding>>
    \/ ParseFile /\ UNCHANGED <<clone_vars, readme_vars, jac_vars, py_vars, stdout_encoding>>
    \/ FinishWalk /\ UNCHANGED <<clone_vars, readme_vars, jac_vars, py_vars, stdout_encoding>>

WalkInit ==
    InitWalk /\ IdleClone /\ IdleReadme /\ IdleJac /\ IdlePy

SpecWalk == WalkInit /\ [][NextWalk]_vars

\* the files of the dialect's suffix none of whose directories is pruned
MatchingFiles ==
    { i \in 1..Len(fs) :
        /\ fs[i].kind = "file"
        /\ EndsWith(fs[i].path[Len(fs[i].path)], SourceSuffix(walk_dialect))
        /\ \A k \in 1..(Len(fs[i].path) - 1) : fs[i].path[k] \notin PrunedDirs(walk_dialect) }

\* whether reading and parsing entry i fails
Fails(i) ==
    \/ fs[i].data.state = "unreadable"
    \/ walk_dialect = "py" /\ fs[i].data.text = "def f(:"

\* the record has the shape of a failed file's
IsDegraded(m) ==
    /\ "error" \in DOMAIN m
    /\ "source_code" \notin DOMAIN m
    /\ IF walk_dialect = "py"
       THEN m.classes = <<>> /\ m.functions = <<>> /\ m.imports = <<>>
       ELSE m.nodes = <<>> /\ m.walkers = <<>> /\ m.edges = <<>>

\* the record is that of a file read and parsed
IsParsed(m, i) ==
    /\ "error" \notin DOMAIN m
    /\ m.source_code = fs[i].data.text
    /\ IF walk_dialect = "py"
       THEN m.imports = <<[name |-> <<"o", "s">>, alias |-> None]>>
            /\ m.classes = <<>> /\ m.functions = <<>>
       ELSE m.nodes = <<[name |-> <<"S">>, line |-> 1, type |-> "node"]>>
            /\ m.walkers = <<>> /\ m.edges = <<>>

\* the position of entry i's record in modules, 0 when it has none
RecordOf(i) ==
    IF \E k \in 1..Len(modules) : modules[k].file_path = EntryPath(RepoPath, fs[i].path)
    THEN CHOOSE k \in 1..Len(modules) : modules[k].file_path = EntryPath(RepoPath, fs[i].path)
    ELSE 0

Parent(path) == SubSeq(path, 1, Len(path) - 1)

\* C9: the walk never raises, and the list it returns holds exactly one
\* record per file of the dialect's suffix in the directories not pruned, in
\* walk order (the files of a directory in listing order, before those of its
\* subdirectories); a file that fails gives a degraded record, and the files
\* after it their own.
C9_OneRecordPerSourceFile ==
    /\ walk_pc # "raised"
    /\ walk_pc = "returned" =>
        /\ Len(modules) = Cardinality(MatchingFiles)
        /\ walk_listed = [k \in 1..Len(modules) |-> modules[k].file_path]
        /\ \A i \in MatchingFiles :
              /\ RecordOf(i) # 0
              /\ modules[RecordOf(i)].module_name
                    = SubSeq(fs[i].path[Len(fs[i].path)], 1,
                             Len(fs[i].path[Len(fs[i].path)]) - Len(SourceSuffix(walk_dialect)))
              /\ IF Fails(i) THEN IsDegraded(modules[RecordOf(i)])
                 ELSE IsParsed(modules[RecordOf(i)], i)
        /\ \A i, j \in MatchingFiles :
              /\ (Parent(fs[i].path) = Parent(fs[j].path) /\ i < j) => RecordOf(i) < RecordOf(j)
              /\ (Len(fs[i].path) < Len(fs[j].path)
                    /\ SubSeq(fs[j].path, 1, Len(fs[i].path) - 1) = Parent(fs[i].path))
                    => RecordOf(i) < RecordOf(j)

====
